---- MODULE Spec2Model ----
(***************************************************************************)
(* A state-machine model of scripts/scrape_linkedin.py: the session        *)
(* orchestrator scrape_with_session, the legacy path scrape_profile, the   *)
(* login executor login_to_linkedin, the session store                     *)
(* (load_cookies_to_driver / get_cookies_from_driver) and the mailbox      *)
(* poller wait_for_verification_code.                                      *)
(*                                                                         *)
(* The browser driver, the site and the mailbox are the environment: what  *)
(* they answer is chosen nondeterministically from small sets.  A location *)
(* (driver.current_url) is modelled by the set of the markers the code     *)
(* tests for with `in`; a text (mail body) by its sequence of words.       *)
(***************************************************************************)
EXTENDS Integers, Sequences, FiniteSets, TLC

\* ------------------------------------------------------------------ bounds
MaxCookies   == 1    \* distinct cookies a caller may supply
MaxRedirects == 1    \* location changes the site performs on its own
MaxTickDur   == 2    \* longest mailbox round trip, in time units
MaxMails     == 2    \* messages that arrive in the mailbox during a run
MaxLeaks     == 1    \* poll ticks that raise after the connection was opened
MaxTimeout   == 7    \* largest timeout of a direct call of the poller
MaxBodyLen   == 5    \* words in a mail body given to the extractor

\* ------------------------------------------------------ program constants
DefaultTimeout == 60    \* wait_for_verification_code(..., timeout=60)
check_interval == 3     \* seconds slept between two polls

\* --------------------------------------------------------------- locations
Markers == {"feed", "mynetwork", "/in/", "checkpoint", "challenge",
            "two-step-verification", "verification", "login"}

\* "two-step-verification" contains "verification" as a substring
WellFormedLoc(u) == ("two-step-verification" \in u) => ("verification" \in u)

AllLocs == {u \in SUBSET Markers : WellFormedLoc(u)}

\* `marker in driver.current_url`
Contains(u, marker) == marker \in u

\* the locations the site answers with in the orchestration runs
Locs == { {"feed"}, {"mynetwork"}, {"/in/"}, {"checkpoint"}, {"challenge"},
          {"challenge", "verification"},
          {"two-step-verification", "verification"},
          {"login"}, {"checkpoint", "login"}, {} }

\* ----------------------------------------------------------------- cookies
CookieIds   == 1..MaxCookies          \* cookies the caller holds
SiteCookies == {0}                    \* a cookie the site sets on its own
AllCookies  == CookieIds \cup SiteCookies

Range(s) == {s[i] : i \in 1..Len(s)}

NoDup(s) == Cardinality(Range(s)) = Len(s)

CookieLists ==
  {s \in UNION {[1..n -> CookieIds] : n \in 0..MaxCookies} : NoDup(s)}

\* ------------------------------------------------------ exception messages
\* str(e), by the keywords the catch-all handler looks for in it
ExcMarkers == {"rate", "limit", "auth", "login", "not found", "404"}
NameErrorMsg == {}     \* "name 'Person' is not defined"
ExcMsgs == { {}, {"limit", "login"}, {"auth"}, {"not found"} }

\* the same keywords as they may be spelled in a message
ExcWords == ExcMarkers \cup {"RATE", "Login", "Not Found"}

\* str.lower() on a word of a message
Lower(w) ==
  CASE w = "RATE" -> "rate"
    [] w = "Login" -> "login"
    [] w = "Not Found" -> "not found"
    [] w = "VERIFICATION" -> "verification"
    [] OTHER -> w

\* `marker in str(e).lower()`
InLower(marker, msg) == marker \in {Lower(w) : w \in msg}

\* a plausible slip: the authentication rule tested before the rate rule
ErrorTypeAuthFirst(msg) ==
  IF InLower("auth", msg) \/ InLower("login", msg) THEN "AUTH_FAILED"
  ELSE IF InLower("rate", msg) \/ InLower("limit", msg) THEN "RATE_LIMITED"
  ELSE IF InLower("not found", msg) \/ "404" \in msg THEN "PROFILE_NOT_FOUND"
  ELSE "SCRAPE_ERROR"

\* lines 748-754, the handler of scrape_with_session: first matching rule
\* wins ("404" is looked for in str(e) itself)
ErrorType(msg) ==
  IF InLower("rate", msg) \/ InLower("limit", msg) THEN "RATE_LIMITED"
  ELSE IF InLower("auth", msg) \/ InLower("login", msg) THEN "AUTH_FAILED"
  ELSE IF InLower("not found", msg) \/ "404" \in msg THEN "PROFILE_NOT_FOUND"
  ELSE "SCRAPE_ERROR"

\* lines 426-432, the handler of scrape_profile
ErrorTypeProfile(msg) ==
  IF InLower("rate", msg) \/ InLower("limit", msg) THEN "RATE_LIMITED"
  ELSE IF InLower("auth", msg) \/ InLower("login", msg) THEN "AUTH_FAILED"
  ELSE IF InLower("not found", msg) \/ "404" \in msg THEN "PROFILE_NOT_FOUND"
  ELSE "SCRAPE_ERROR"

\* ------------------------------------------------------------ mail bodies
\* a body is the sequence of its words; a code is a group of six digits
ExtractCodes == {"123456", "654321"}
Codes == ExtractCodes \cup {"482913"}
Words == {"verification", "your", "code:", "is", "x"} \cup ExtractCodes
NoCode == "none"     \* Python's None

\* lines 557-562: the patterns in list order; "D" stands for (\d{6})
code_patterns ==
  << <<"verification", "code:", "D">>,
     <<"your", "code:", "D">>,
     <<"code:", "D">>,
     <<"D", "is", "your">> >>

\* the pattern matches the words of the body that start at position i
MatchesAt(pat, body, i) ==
  /\ i >= 1
  /\ i + Len(pat) - 1 <= Len(body)
  /\ \A k \in 1..Len(pat) :
       IF pat[k] = "D" THEN body[i + k - 1] \in Codes
                       ELSE body[i + k - 1] = pat[k]

MatchPositions(pat, body) == {i \in 1..Len(body) : MatchesAt(pat, body, i)}

Min(S) == CHOOSE x \in S : \A y \in S : x <= y

\* re.search: the leftmost match of one pattern; match.group(1)
GroupIndex(pat) == CHOOSE k \in 1..Len(pat) : pat[k] = "D"

SearchGroup(pat, body) ==
  LET pos == MatchPositions(pat, body)
  IN  IF pos = {} THEN NoCode
      ELSE body[Min(pos) + GroupIndex(pat) - 1]

\* lines 564-570: `for pattern in code_patterns`, returning at the first match
RECURSIVE ExtractFrom(_, _)
ExtractFrom(p, body) ==
  IF p > Len(code_patterns) THEN NoCode
  ELSE IF SearchGroup(code_patterns[p], body) # NoCode
       THEN SearchGroup(code_patterns[p], body)
       ELSE ExtractFrom(p + 1, body)

\* a plausible slip: the match that comes first in the body wins
ExtractByPosition(body) ==
  LET hits == {<<i, p>> \in (1..Len(body)) \X (1..Len(code_patterns)) :
                 MatchesAt(code_patterns[p], body, i)}
      first == CHOOSE h \in hits :
                 \A g \in hits : h[1] < g[1] \/ (h[1] = g[1] /\ h[2] <= g[2])
  IN  IF hits = {} THEN NoCode
      ELSE body[first[1] + GroupIndex(code_patterns[first[2]]) - 1]

ExtractCode(body) == ExtractFrom(1, body)

Bodies == UNION {[1..n -> Words] : n \in 0..MaxBodyLen}

\* the messages the mailbox receives: the words of the subject, and the
\* parts in the order msg.walk() gives them (one part when not multipart)
Messages ==
  { [subject |-> {"Your", "verification", "code"}, multipart |-> FALSE,
     parts |-> << [type |-> "text/plain",
                   text |-> <<"verification", "code:", "482913">>] >>],
    [subject |-> {"LinkedIn", "VERIFICATION"}, multipart |-> TRUE,
     parts |-> << [type |-> "text/html",
                   text |-> <<"your", "code:", "654321">>],
                  [type |-> "text/plain", text |-> <<"x", "654321">>],
                  [type |-> "text/plain", text |-> <<"code:", "123456">>] >>],
    [subject |-> {"Security", "alert"}, multipart |-> FALSE,
     parts |-> << [type |-> "text/plain",
                   text |-> <<"your", "code:", "123456">>] >>] }

\* line 543: `'verification' in subject.lower()`
IsVerification(subject) == InLower("verification", subject)

\* lines 549-552: the loop over msg.walk() stops at the first text/plain part
RECURSIVE FirstPlain(_, _)
FirstPlain(parts, i) ==
  IF i > Len(parts) THEN <<>>
  ELSE IF parts[i].type = "text/plain" THEN parts[i].text
  ELSE FirstPlain(parts, i + 1)

\* a plausible slip: no break in the loop, the last text/plain part is kept
RECURSIVE LastPlain(_, _)
LastPlain(parts, i) ==
  IF i < 1 THEN <<>>
  ELSE IF parts[i].type = "text/plain" THEN parts[i].text
  ELSE LastPlain(parts, i - 1)

BodyOfLastPlain(m) ==
  IF m.multipart THEN LastPlain(m.parts, Len(m.parts)) ELSE m.parts[1].text

\* lines 547-553: the text that is searched for a code
BodyOf(m) ==
  IF m.multipart THEN FirstPlain(m.parts, 1) ELSE m.parts[1].text

\* ------------------------------------------------- login classification
\* lines 265-309 of login_to_linkedin.  loc is the current_url read once at
\* line 261; errElem tells whether the error element exists ("absent": the
\* lookup raises) and whether its text is empty; page is the set of the
\* words of the page source the code looks for, or "raises".
ErrElems == {"absent", "empty", "text"}
PageWords == {"incorrect", "wrong", "recognize"}
Pages == (SUBSET PageWords) \cup {{"raises"}}

IsPostLogin(loc) ==
  Contains(loc, "feed") \/ Contains(loc, "mynetwork") \/ Contains(loc, "/in/")

StillOnLogin(page) ==
  IF page = {"raises"} THEN "STILL_ON_LOGIN"
  ELSE IF "incorrect" \in page \/ "wrong" \in page THEN "INCORRECT"
  ELSE IF "recognize" \in page THEN "UNRECOGNIZED"
  ELSE "STILL_ON_LOGIN"

\* a plausible slip: the still-on-login inference made before the markers
ClassifyLoginFirst(loc, errElem, page) ==
  IF IsPostLogin(loc) THEN "SUCCESS"
  ELSE IF Contains(loc, "login") THEN StillOnLogin(page)
  ELSE IF Contains(loc, "checkpoint") THEN "CHECKPOINT"
  ELSE IF Contains(loc, "challenge") THEN "CAPTCHA"
  ELSE IF Contains(loc, "two-step-verification") \/ Contains(loc, "verification")
       THEN "TWO_FACTOR"
  ELSE IF errElem # "absent" THEN "FIELD_ERROR"
  ELSE "UNEXPECTED"

Classify(loc, errElem, page) ==
  IF IsPostLogin(loc) THEN "SUCCESS"
  ELSE IF Contains(loc, "checkpoint") THEN "CHECKPOINT"
  ELSE IF Contains(loc, "challenge") THEN "CAPTCHA"
  ELSE IF Contains(loc, "two-step-verification") \/ Contains(loc, "verification")
       THEN "TWO_FACTOR"
  ELSE IF errElem # "absent" THEN "FIELD_ERROR"
  ELSE IF Contains(loc, "login") THEN StillOnLogin(page)
  ELSE "UNEXPECTED"

\* ------------------------------------------------------- filling the form
\* lines 173-245.  What the page does to one field: the step that raises,
\* and the values get_attribute('value') gives after the scripted write
\* (r1) and after the ActionChains fallback (r2).
RaiseSteps == {"none", "find", "write", "read", "fallback", "reread"}
ReadBacks == {"", "val", "value"}
FieldInputs == [raisesAt : RaiseSteps, r1 : ReadBacks, r2 : ReadBacks]

NoInput == [raisesAt |-> "none", r1 |-> "", r2 |-> ""]
NoForm == [email |-> NoInput, password |-> NoInput]

\* a field the function did not come to
NotReached ==
  [writes |-> 0, fallbacks |-> 0, entered |-> <<>>, raised |-> FALSE,
   result |-> "not_reached"]

Filled(w, f, e, r, res) ==
  [writes |-> w, fallbacks |-> f, entered |-> e, raised |-> r, result |-> res]

\* a plausible slip: the field is given up after the first empty read-back
FillFieldWithoutFallback(in) ==
  IF in.raisesAt = "find" THEN Filled(0, 0, <<>>, TRUE, "not_found")
  ELSE IF in.raisesAt \in {"write", "read"}
    THEN Filled(1, 0, <<>>, TRUE, "not_found")
  ELSE IF in.r1 # "" THEN Filled(1, 0, <<in.r1>>, FALSE, "ok")
  ELSE Filled(1, 0, <<in.r1>>, FALSE, "blocked")

\* lines 175-208 (email) and 212-245 (password): the calls of
\* set_input_value, the values read into entered_value, the fallbacks begun,
\* whether the except clause ran, and the result: "ok", "blocked" (`Could
\* not enter ...`, lines 203-204, 240-241) or "not_found" (`Could not find
\* ... input field`, lines 206-208, 243-245)
FillField(in) ==
  IF in.raisesAt = "find" THEN Filled(0, 0, <<>>, TRUE, "not_found")
  ELSE IF in.raisesAt \in {"write", "read"}
    THEN Filled(1, 0, <<>>, TRUE, "not_found")
  ELSE IF in.r1 # "" THEN Filled(1, 0, <<in.r1>>, FALSE, "ok")
  ELSE IF in.raisesAt \in {"fallback", "reread"}
    THEN Filled(1, 1, <<in.r1>>, TRUE, "not_found")
  ELSE Filled(1, 1, <<in.r1, in.r2>>, FALSE,
              IF in.r2 # "" THEN "ok" ELSE "blocked")

\* what happens before the classification: the navigation or a print raises
\* (outer handler, line 311), the form is not submitted (a field is not
\* found or stays empty, the button cannot be clicked: lines 204, 208, 241,
\* 245, 254), or it is submitted
PreOutcomes == {"EXCEPTION", "NOT_SUBMITTED", "submitted"}

\* where the login page may be found when the form is not submitted
LoginPageLocs == { {"login"}, {"checkpoint"}, {} }

\* login_to_linkedin: the outcome tag; login_success is outcome = "SUCCESS"
login_to_linkedin(pre, loc, errElem, page) ==
  IF pre = "submitted" THEN Classify(loc, errElem, page) ELSE pre

\* ------------------------------------------------------------------- state
VARIABLES
  mode,            \* "session", "legacy", "poll", "extract" or "classify"
  request,         \* what main was given: "ok", "no_url", "bad_url", "malformed"
  exit_status,     \* the status main exited with (-1 before)
  stderr,          \* the credential fields whose value a log line shows
  pc,              \* position in the function that runs
  cookiesIn,       \* the cookies the caller supplied
  cookies,         \* the local variable cookies (<<>>: None or empty)
  gmail_email,     \* the mailbox address is supplied (truthy)
  gmail_app_password,
  credsGiven,      \* scrape_profile: email and password are available
  creds,           \* scrape_profile: the arguments and the environment
  account,         \* scrape_profile: the locals email and password
  driver,          \* "none", "open", "closed"
  quitCalls,       \* calls of driver.quit()
  raisedOut,       \* an exception left the function
  url,             \* driver.current_url
  redirects,       \* location changes the site made on its own
  jar,             \* the cookies the driver holds
  loadResult,      \* "na", or what load_cookies_to_driver returned
  accepted,        \* the supplied cookies driver.add_cookie took
  loaded_count,    \* the count in the "Loaded N cookies" line (-1: no line)
  loginCalls,      \* calls of login_to_linkedin
  outcome,         \* what login_to_linkedin returned ("none" before)
  login_success,
  verifSeen,       \* line 617: "none", "required" or "no"
  authVia,         \* how line 674 was reached: "none", "cookies", "login", "code"
  pollCalls,       \* calls of wait_for_verification_code
  code,            \* what the poller returned
  typed,           \* codes written to the verification input
  submitted,       \* codes submitted
  submitLoc,       \* the location the submission landed on
  new_cookies,     \* what get_cookies_from_driver returned
  authenticated,   \* line 674 was reached
  response,        \* the returned response
  now,             \* wall-clock time
  start_time,
  timeout,
  tickStart,       \* the time of the last loop test that let a tick start
  returnedAt,      \* the time the poller returned (-1 before)
  inbox,           \* the unseen messages of the sender
  arrived,         \* messages that arrived so far
  conns,           \* open mailbox connections
  opened,          \* mailbox connections opened so far
  leaks,           \* ticks that raised with the connection open
  found,           \* the subjects in the "Found verification email" lines
  body,            \* the text given to the extractor
  extracted,       \* what it returned
  error_element,   \* the classification step alone: the error element it met
  exc,             \* the handler step alone: the message of the exception
  form,            \* the form steps alone: what the page does to each field
  filled,          \* the form steps alone: what was done to each field
  wiki,            \* search_wikipedia: search_type and what Wikipedia does
  queried,         \* search_wikipedia: the titles given to wiki.page()
  result           \* search_wikipedia: the dict it returns

vars == <<mode, request, exit_status, stderr, pc, cookiesIn, cookies,
          gmail_email, gmail_app_password,
          credsGiven, creds, account, driver, quitCalls, raisedOut, url, redirects, jar,
          loadResult, accepted, loaded_count, loginCalls, outcome, login_success, verifSeen,
          authVia, pollCalls, code, typed, submitted, submitLoc, new_cookies,
          authenticated, response, now, start_time, timeout, tickStart,
          returnedAt, inbox, arrived, conns, opened, leaks, found, body,
          extracted,
          error_element, exc, form, filled, wiki, queried, result>>

driverVars == <<driver, quitCalls, raisedOut>>
cookieVars == <<jar, loadResult, accepted, loaded_count, new_cookies>>
loginVars  == <<loginCalls, outcome, login_success>>
codeVars   == <<typed, submitted, submitLoc>>
clockVars  == <<now, start_time, timeout, tickStart, returnedAt>>
mailVars   == <<inbox, arrived, conns, opened, leaks, found>>
pollVars   == <<pollCalls, code, clockVars, mailVars>>
inputVars  == <<mode, request, cookiesIn, gmail_email, gmail_app_password,
                credsGiven, creds>>
pureVars   == <<body, extracted, error_element, exc, form, filled>>
wikiVars   == <<wiki, queried, result>>

\* ---------------------------------------------------------------- responses
NoResponse ==
  [returned |-> FALSE, success |-> FALSE, error_type |-> "none",
   has_cookies |-> FALSE, cookies |-> {}]

Failure(error_type) ==
  [returned |-> TRUE, success |-> FALSE, error_type |-> error_type,
   has_cookies |-> FALSE, cookies |-> {}]

\* line 725-743 (with "cookies") and 404-421 (without)
Success(has_cookies, cs) ==
  [returned |-> TRUE, success |-> TRUE, error_type |-> "none",
   has_cookies |-> has_cookies, cookies |-> cs]

\* ------------------------------------- wikipedia_search.py, search_wikipedia
\* a title is the query ("") or the query with a suffix
Exact == ""

\* lines 92-105: the alternatives in list order (none for another type)
person_alternatives ==
  <<"(investor)", "(venture capitalist)", "(entrepreneur)", "(businessperson)">>
company_alternatives == <<"(company)", "(venture capital)", "(firm)">>

AlternativesOf(search_type) ==
  IF search_type = "person" THEN person_alternatives
  ELSE IF search_type = "company" THEN company_alternatives
  ELSE <<>>

Titles ==
  {Exact} \cup {person_alternatives[i] : i \in 1..Len(person_alternatives)}
          \cup {company_alternatives[i] : i \in 1..Len(company_alternatives)}

\* the argument search_type (main allows the first two only)
SearchTypes == {"person", "company", "other"}

\* what an extraction step does: nothing, an exception that leaves it
\* (lines 62-76), or one inside extract_categories / extract_useful_links,
\* whose bare except returns [] (lines 165, 192)
ExtractRaises == {"none", "propagates", "swallowed"}

\* search_type, the titles that exist, the lookup (wiki.page and
\* page.exists(), counted from 1) that raises (0: none) and the extraction
WikiInputs ==
  [search_type : SearchTypes, existing : SUBSET Titles,
   raise_lookup : 0..(Len(person_alternatives) + 1),
   raise_extract : ExtractRaises]

NoWiki ==
  [search_type |-> "person", existing |-> {}, raise_lookup |-> 0,
   raise_extract |-> "none"]

\* lines 37-44: result before the try block (page: data["title"])
NoResult == [success |-> FALSE, error_type |-> "none", page |-> "none"]

\* a plausible slip: no return inside the loop, the last existing
\* alternative is kept
RECURSIVE try_alternative_searches_last(_, _, _, _, _)
try_alternative_searches_last(in, alts, i, asked, page) ==
  IF i > Len(alts)
    THEN [queried |-> asked, page |-> page, raised |-> FALSE]
  ELSE IF in.raise_lookup = Len(asked) + 1
    THEN [queried |-> Append(asked, alts[i]), page |-> "none", raised |-> TRUE]
  ELSE try_alternative_searches_last(in, alts, i + 1, Append(asked, alts[i]),
                                     IF alts[i] \in in.existing
                                       THEN alts[i] ELSE page)

\* lines 107-112: the alternatives from the i-th on; asked holds the titles
\* looked up so far
RECURSIVE try_alternative_searches(_, _, _, _, _)
try_alternative_searches(in, alts, i, asked, page) ==
  IF i > Len(alts)
    THEN [queried |-> asked, page |-> "none", raised |-> FALSE]
  ELSE IF in.raise_lookup = Len(asked) + 1
    THEN [queried |-> Append(asked, alts[i]), page |-> "none", raised |-> TRUE]
  ELSE IF alts[i] \in in.existing
    THEN [queried |-> Append(asked, alts[i]), page |-> alts[i],
          raised |-> FALSE]
  ELSE try_alternative_searches(in, alts, i + 1, Append(asked, alts[i]), page)

\* lines 48-58: the page that is used
FindPage(in) ==
  IF in.raise_lookup = 1
    THEN [queried |-> <<Exact>>, page |-> "none", raised |-> TRUE]
  ELSE IF Exact \in in.existing
    THEN [queried |-> <<Exact>>, page |-> Exact, raised |-> FALSE]
  ELSE try_alternative_searches(in, AlternativesOf(in.search_type), 1,
                                <<Exact>>, "none")

\* lines 46-85
SearchResult(in) ==
  LET f == FindPage(in) IN
  IF f.raised
    THEN [success |-> FALSE, error_type |-> "SEARCH_ERROR", page |-> "none"]
  ELSE IF f.page = "none"
    THEN [success |-> FALSE, error_type |-> "NOT_FOUND", page |-> "none"]
  ELSE IF in.raise_extract = "propagates"
    THEN [success |-> FALSE, error_type |-> "SEARCH_ERROR", page |-> "none"]
  ELSE [success |-> TRUE, error_type |-> "none", page |-> f.page]

\* ------------------------------------------------ credentials, lines 331-334
\* a value of an argument or of the environment: "none" is None (not
\* passed, not set), "" the empty string
ArgValues == {"none", "", "arg"}
EnvValues == {"none", "", "env"}

\* `not v` is false
Truthy(v) == v \notin {"none", ""}

\* a plausible slip: the environment value taken first
ResolveEnvFirst(arg, env) == IF Truthy(env) THEN env ELSE arg

\* lines 331-332: `email or os.environ.get('LINKEDIN_EMAIL')`
Resolve(arg, env) == IF Truthy(arg) THEN arg ELSE env

AllCreds ==
  [email_arg : ArgValues, password_arg : ArgValues,
   env_email : EnvValues, env_password : EnvValues]

NoCreds ==
  [email_arg |-> "none", password_arg |-> "none",
   env_email |-> "none", env_password |-> "none"]

NoAccount == [email |-> "none", password |-> "none"]

\* line 334, on the locals of lines 331-332
Available(c) ==
  /\ Truthy(Resolve(c.email_arg, c.env_email))
  /\ Truthy(Resolve(c.password_arg, c.env_password))

\* the calls main makes in the runs of the whole program (lines 830-834):
\* nothing given, or --email with both values in the environment
MainCreds ==
  { NoCreds,
    [email_arg |-> "arg", password_arg |-> "none",
     env_email |-> "env", env_password |-> "env"] }

\* -------------------------------------------------------------------- Init
InitRun ==
  /\ cookies = cookiesIn
  /\ driver = "none" /\ quitCalls = 0 /\ raisedOut = FALSE
  /\ url = {} /\ redirects = 0
  /\ jar = {} /\ loadResult = "na" /\ accepted = {} /\ loaded_count = -1
  /\ loginCalls = 0 /\ outcome = "none" /\ login_success = FALSE
  /\ account = NoAccount
  /\ queried = <<>> /\ result = NoResult
  /\ verifSeen = "none" /\ authVia = "none"
  /\ pollCalls = 0 /\ code = NoCode
  /\ typed = <<>> /\ submitted = <<>> /\ submitLoc = {}
  /\ new_cookies = {} /\ authenticated = FALSE
  /\ response = NoResponse
  /\ exit_status = -1 /\ stderr = {}
  /\ now = 0 /\ start_time = 0 /\ tickStart = -1 /\ returnedAt = -1
  /\ inbox = <<>> /\ arrived = 0 /\ conns = 0 /\ opened = 0 /\ leaks = 0
  /\ found = {}
  /\ extracted = NoCode /\ error_element = "none"
  /\ filled = [email |-> NotReached, password |-> NotReached,
               clicked |-> FALSE]

\* lines 781-788 and 812-830: what main is given.  The stdin mode reads a
\* JSON request ("malformed": not JSON, or not an object; "no_url": an
\* object without "url"); the legacy mode takes the URL from the command
\* line ("no_url": none given; "bad_url": one without 'linkedin.com').
Requests(m) ==
  IF m = "session" THEN {"malformed", "no_url", "ok"}
                   ELSE {"no_url", "bad_url", "ok"}

\* the requests main hands on to scrape_with_session or scrape_profile
Accepted(m, req) ==
  IF m = "session" THEN req # "malformed" ELSE req = "ok"

\* main: the stdin mode calls scrape_with_session, the legacy mode
\* scrape_profile
Init ==
  /\ mode \in {"session", "legacy"}
  /\ request \in Requests(mode)
  /\ pc = "main"
  /\ cookiesIn \in IF mode = "session" /\ Accepted(mode, request)
                     THEN CookieLists ELSE {<<>>}
  /\ gmail_email \in IF mode = "session" /\ Accepted(mode, request)
                       THEN BOOLEAN ELSE {FALSE}
  /\ gmail_app_password \in IF mode = "session" /\ Accepted(mode, request)
                              THEN BOOLEAN ELSE {FALSE}
  /\ creds \in IF mode = "legacy" /\ Accepted(mode, request)
                 THEN MainCreds ELSE {NoCreds}
  /\ credsGiven = IF mode = "session" THEN TRUE ELSE Available(creds)
  /\ timeout = DefaultTimeout
  /\ body = <<>> /\ exc = {} /\ form = NoForm
  /\ wiki = NoWiki
  /\ InitRun

\* ------------------------------------------------------- shared fragments
\* a `return {...}` inside the try block: the finally clause runs next
Return(resp) == response' = resp /\ pc' = "finally"

\* lines 747-761 / 425-439: the catch-all handler, then the finally clause
Raise(msg) ==
  Return(Failure(IF mode = "legacy" THEN ErrorTypeProfile(msg)
                                    ELSE ErrorType(msg)))

\* a later read of driver.current_url: the location read before, or a new
\* one when the site has moved the page in between
RedirectLocs == { {"checkpoint"}, {"feed"}, {} }

Reads(u, r) == {u} \cup (IF r < MaxRedirects THEN RedirectLocs ELSE {})

Moved(u, v) == IF u = v THEN 0 ELSE 1

\* --------------------------------------------------------------------- main
\* a plausible slip: the status taken from the presence of a response
ExitStatusOfAnyResponse(resp) == IF resp.returned THEN 0 ELSE 1

\* lines 801 and 843: `sys.exit(0 if result.get('success') else 1)`
ExitStatus(resp) == IF resp.success THEN 0 ELSE 1

\* lines 803-810 (the stdin request cannot be read), 812-820 and 822-830
Rejection(m, req) ==
  IF m = "session" THEN "INPUT_ERROR"
  ELSE IF req = "no_url" THEN "INVALID_INPUT"
  ELSE "INVALID_URL"

\* lines 781-799 and 812-837: the request is rejected, the response printed
\* and the process left with status 1, or the scraping function is called
main ==
  /\ pc = "main"
  /\ IF Accepted(mode, request)
       THEN /\ pc' = IF mode = "session" THEN "setup" ELSE "start"
            /\ UNCHANGED <<response, exit_status>>
       ELSE /\ response' = Failure(Rejection(mode, request))
            /\ exit_status' = 1
            /\ pc' = "exited"
  /\ UNCHANGED <<inputVars, wikiVars, account, cookies, driverVars, url, redirects, cookieVars,
                 loginVars, verifSeen, authVia, pollVars, codeVars,
                 authenticated, pureVars, stderr>>

\* lines 800-801 and 840-843: the response is printed and the process exits
main_exit ==
  /\ pc = "done" /\ mode \in {"session", "legacy"}
  /\ exit_status' = ExitStatus(response)
  /\ pc' = "exited"
  /\ UNCHANGED <<inputVars, wikiVars, account, cookies, driverVars, url, redirects, cookieVars,
                 loginVars, verifSeen, authVia, pollVars, codeVars,
                 authenticated, response, pureVars, stderr>>

\* ------------------------------------------------------------ scrape_profile
\* lines 330-339: the credentials are taken from the arguments or the
\* environment and tested, before the try block
scrape_profile_start ==
  /\ pc = "start" /\ mode = "legacy"
  /\ account' = [email |-> Resolve(creds.email_arg, creds.env_email),
                 password |-> Resolve(creds.password_arg, creds.env_password)]
  /\ IF Truthy(account'.email) /\ Truthy(account'.password)
       THEN pc' = "setup" /\ UNCHANGED response
       ELSE pc' = "done" /\ response' = Failure("AUTH_MISSING")
  /\ UNCHANGED <<inputVars, wikiVars, cookies, driverVars, url, redirects, cookieVars,
                 loginVars, verifSeen, authVia, pollVars, codeVars,
                 authenticated, pureVars,
                 exit_status, stderr>>

\* ------------------------------------------------------------- setup_driver
\* lines 592 / 344: the driver is returned, or the call raises
AfterSetup == IF mode = "session" /\ cookies # <<>> THEN "load_cookies" ELSE "login"

setup_driver ==
  /\ pc = "setup"
  /\ \/ /\ driver' = "open"
        /\ pc' = AfterSetup
        /\ UNCHANGED response
     \/ /\ \E msg \in ExcMsgs : Raise(msg)
        /\ UNCHANGED driver
  /\ UNCHANGED <<inputVars, wikiVars, account, cookies, quitCalls, raisedOut, url, redirects,
                 cookieVars, loginVars, verifSeen, authVia, pollVars, codeVars,
                 authenticated, pureVars,
                 exit_status, stderr>>

\* --------------------------------------------------- load_cookies_to_driver
\* lines 449-487, called at line 597 (its result is not used there).  The
\* first navigation raises (False), or each cookie is added or skipped (True).
load_cookies_to_driver ==
  /\ pc = "load_cookies"
  /\ \/ /\ loadResult' = FALSE
        /\ UNCHANGED <<accepted, jar, loaded_count>>
     \/ \E rejected \in SUBSET Range(cookies), site \in SUBSET SiteCookies :
          /\ loadResult' = TRUE
          /\ accepted' = Range(cookies) \ rejected
          /\ jar' = jar \cup site \cup accepted'
          /\ loaded_count' = Len(cookies)                       \* line 482
  /\ pc' = "validate_nav"
  /\ UNCHANGED <<inputVars, wikiVars, account, cookies, driverVars, url, redirects, new_cookies,
                 loginVars, verifSeen, authVia, pollVars, codeVars,
                 authenticated, response, pureVars,
                 exit_status, stderr>>

\* line 600: driver.get(linkedin_url)
validate_nav ==
  /\ pc = "validate_nav"
  /\ \/ /\ \E loc \in Locs : url' = loc
        /\ pc' = "check_session"
        /\ UNCHANGED response
     \/ /\ \E msg \in ExcMsgs : Raise(msg)
        /\ UNCHANGED url
  /\ UNCHANGED <<inputVars, wikiVars, account, cookies, driverVars, redirects, cookieVars,
                 loginVars, verifSeen, authVia, pollVars, codeVars,
                 authenticated, pureVars,
                 exit_status, stderr>>

\* line 604: the test of the two reads of driver.current_url
SessionValid(r1, r2) == ~Contains(r1, "login") /\ ~Contains(r2, "checkpoint")

\* lines 604-608
check_session ==
  /\ pc = "check_session"
  /\ \E r2 \in Reads(url, redirects) :
       /\ Contains(url, "login") => r2 = url       \* `and` reads once then
       /\ url' = r2
       /\ redirects' = redirects + Moved(url, r2)
       /\ IF SessionValid(url, r2)
            THEN /\ pc' = "get_cookies"
                 /\ authVia' = "cookies"
                 /\ UNCHANGED cookies
            ELSE /\ pc' = "login"
                 /\ cookies' = <<>>
                 /\ UNCHANGED authVia
  /\ UNCHANGED <<inputVars, wikiVars, account, driverVars, cookieVars, loginVars, verifSeen,
                 pollVars, codeVars, authenticated, response, pureVars,
                 exit_status, stderr>>

\* ---------------------------------------------------------- login_to_linkedin
\* a plausible slip: a failed login is tried again
AfterLoginRetry(res) ==
  IF res = "SUCCESS"
    THEN (IF mode = "session" THEN "get_cookies" ELSE "scrape")
    ELSE "login"

\* lines 613 / 347: the call, and the branch on its result (615 / 348)
AfterLogin(res) ==
  IF res = "SUCCESS"
    THEN (IF mode = "session" THEN "get_cookies" ELSE "scrape")
    ELSE (IF mode = "session" THEN "check_verification" ELSE "finally")

\* lines 187-188: once the value of the email field is set, the log shows
\* `Email entered via JS: {email}`; lines 224-225 show only the length of
\* the password.  A submitted form had its email field set.
LoginLogs(pre, emailSet) ==
  IF pre = "submitted" \/ emailSet THEN {"email"} ELSE {}

login ==
  /\ pc = "login"
  /\ \E pre \in PreOutcomes, loc \in Locs, errElem \in ErrElems,
        page \in Pages, site \in SUBSET SiteCookies, emailSet \in BOOLEAN :
       LET res == login_to_linkedin(pre, loc, errElem, page) IN
         /\ pre # "submitted" => loc \in LoginPageLocs
         /\ pre = "submitted" => emailSet
         /\ stderr' = stderr \cup LoginLogs(pre, emailSet)
         /\ outcome' = res
         /\ login_success' = (res = "SUCCESS")
         /\ url' = loc
         /\ jar' = jar \cup site
         /\ pc' = AfterLogin(res)
         /\ authVia' = IF res = "SUCCESS" /\ mode = "session"
                         THEN "login" ELSE authVia
         /\ response' = IF res # "SUCCESS" /\ mode = "legacy"
                          THEN Failure("AUTH_FAILED") ELSE response
  /\ loginCalls' = loginCalls + 1
  /\ UNCHANGED <<inputVars, wikiVars, account, cookies, driverVars, redirects, loadResult,
                 accepted, loaded_count, new_cookies, verifSeen, pollVars, codeVars,
                 authenticated, pureVars, exit_status>>

\* line 617: `"checkpoint" in driver.current_url or "verification" in
\* driver.current_url`, two fresh reads of the location
VerificationNeeded(r1, r2) ==
  Contains(r1, "checkpoint") \/ Contains(r2, "verification")

\* a plausible slip: one of the two mailbox credentials is taken as enough
MailboxGivenEither(e, p) == e \/ p

\* line 620: `if gmail_email and gmail_app_password`
MailboxGiven(e, p) == e /\ p

\* lines 615-671 without the polling and the submission
check_verification ==
  /\ pc = "check_verification"
  /\ \E r1 \in Reads(url, redirects) :
     \E r2 \in Reads(r1, redirects + Moved(url, r1)) :
       /\ Contains(r1, "checkpoint") => r2 = r1     \* `or` reads once then
       /\ url' = r2
       /\ redirects' = redirects + Moved(url, r1) + Moved(r1, r2)
       /\ IF VerificationNeeded(r1, r2)
            THEN /\ verifSeen' = "required"
                 /\ IF MailboxGiven(gmail_email, gmail_app_password)
                      THEN pc' = "poll" /\ UNCHANGED response
                      ELSE Return(Failure("VERIFICATION_REQUIRED"))
            ELSE /\ verifSeen' = "no"
                 /\ Return(Failure("AUTH_FAILED"))
  /\ UNCHANGED <<inputVars, wikiVars, account, cookies, driverVars, cookieVars, loginVars,
                 authVia, pollVars, codeVars, authenticated, pureVars,
                 exit_status, stderr>>

\* ------------------------------------------------ wait_for_verification_code
\* a plausible slip: one more poll begun exactly at the deadline
LoopContinuesAtDeadline(elapsed, t) == elapsed <= t

\* line 516: `while time.time() - start_time < timeout`
LoopContinues(elapsed, t) == elapsed < t

\* the messages of box that were not fetched (a fetch marks a message seen)
RECURSIVE Unseen(_, _, _)
Unseen(box, seen, i) ==
  IF i > Len(box) THEN <<>>
  ELSE IF i \in seen THEN Unseen(box, seen, i + 1)
  ELSE <<box[i]>> \o Unseen(box, seen, i + 1)

\* lines 529-570: the messages in the order the search gave them.  A fetch in
\* fetchBad is not OK; handling message excAt raises (0: none does).
RECURSIVE Walk(_, _, _, _, _)
Walk(box, i, seen, fetchBad, excAt) ==
  IF i > Len(box)
    THEN [kind |-> "none", code |-> NoCode, seen |-> seen]
  ELSE IF i \in fetchBad THEN Walk(box, i + 1, seen, fetchBad, excAt)
  ELSE IF i = excAt
    THEN [kind |-> "raise", code |-> NoCode, seen |-> seen \cup {i}]
  ELSE IF IsVerification(box[i].subject) /\ ExtractCode(BodyOf(box[i])) # NoCode
    THEN [kind |-> "code", code |-> ExtractCode(BodyOf(box[i])),
          seen |-> seen \cup {i}]
  ELSE Walk(box, i + 1, seen \cup {i}, fetchBad, excAt)

\* how one poll tick (lines 517-575) goes
TickHows == {"connect_raises",   \* 519 raises: no connection exists
             "open_raises",      \* 520-524 raise: line 572 is not reached
             "search_bad",       \* 526: the result is not OK; 572 logs out
             "walk"}             \* 527-572

\* one poll tick: kind "code" returns the code (after the logout of line
\* 569); `opens` tells whether a connection was opened and `leak` whether it
\* was left open
Tick(how, box, fetchBad, excAt) ==
  LET w == Walk(box, 1, {}, fetchBad, excAt) IN
  CASE how = "connect_raises" ->
         [kind |-> "raise", code |-> NoCode, seen |-> {}, opens |-> 0, leak |-> 0]
    [] how = "open_raises" ->
         [kind |-> "raise", code |-> NoCode, seen |-> {}, opens |-> 1, leak |-> 1]
    [] how = "search_bad" ->
         [kind |-> "none", code |-> NoCode, seen |-> {}, opens |-> 1, leak |-> 0]
    [] OTHER ->
         [kind |-> w.kind, code |-> w.code, seen |-> w.seen, opens |-> 1,
          leak |-> IF w.kind = "raise" THEN 1 ELSE 0]

\* a plausible slip: an exception inside a tick ends the poll
TickEndsOnRaise(kind) == kind \in {"code", "raise"}

\* lines 564-570 return from inside the loop; the handler of lines 574-575
\* only logs, and line 578 follows it
TickEnds(kind) == kind = "code"

\* line 511: `Waiting for verification code at {gmail_email}...`
PollerLogs == {"gmail_email"}

\* lines 511-514: a direct call of the poller
wfvc_start ==
  /\ pc = "wfvc_start"
  /\ stderr' = stderr \cup PollerLogs
  /\ start_time' = now
  /\ pollCalls' = pollCalls + 1
  /\ pc' = "wfvc_head"
  /\ UNCHANGED <<inputVars, wikiVars, account, cookies, driverVars, url, redirects, cookieVars,
                 loginVars, verifSeen, authVia, code, now, timeout, tickStart,
                 returnedAt, mailVars, codeVars, authenticated, response,
                 pureVars, exit_status>>

\* line 516, and lines 580-581 when the loop ends
wfvc_head ==
  /\ pc = "wfvc_head"
  /\ IF LoopContinues(now - start_time, timeout)
       THEN /\ pc' = "wfvc_tick"
            /\ tickStart' = now
            /\ UNCHANGED <<code, returnedAt>>
       ELSE /\ pc' = "done"
            /\ code' = NoCode
            /\ returnedAt' = now
            /\ UNCHANGED tickStart
  /\ UNCHANGED <<inputVars, wikiVars, account, cookies, driverVars, url, redirects, cookieVars,
                 loginVars, verifSeen, authVia, pollCalls, now, start_time,
                 timeout, mailVars, codeVars, authenticated, response,
                 pureVars,
                 exit_status, stderr>>

\* line 544: the subjects printed in a tick that fetched the messages seen;
\* message `early` raised before its subject was tested (0: none did)
Printed(box, seen, early) ==
  {box[i].subject : i \in {k \in seen \ {early} : IsVerification(box[k].subject)}}

\* lines 517-575: one poll tick, a mailbox round trip of d time units.  The
\* message that raises does so before line 543 (fetch, decode_header) or
\* after it (the decoding of the payload).
wfvc_tick ==
  /\ pc = "wfvc_tick"
  /\ \E d \in 0..MaxTickDur, how \in TickHows,
        fetchBad \in SUBSET (1..Len(inbox)), excAt \in 0..Len(inbox),
        late \in BOOLEAN :
       LET r == Tick(how, inbox, fetchBad, excAt) IN
         /\ how # "walk" => fetchBad = {} /\ excAt = 0
         /\ (how # "walk" \/ r.kind # "raise") => late
         /\ found' = found \cup Printed(inbox, r.seen,
                                       IF r.kind = "raise" /\ ~late
                                         THEN excAt ELSE 0)
         /\ r.leak = 1 => leaks < MaxLeaks
         /\ now' = now + d
         /\ opened' = opened + r.opens
         /\ conns' = conns + r.leak
         /\ leaks' = leaks + r.leak
         /\ inbox' = Unseen(inbox, r.seen, 1)
         /\ IF TickEnds(r.kind)
              THEN pc' = "done" /\ code' = r.code /\ returnedAt' = now + d
              ELSE pc' = "wfvc_sleep" /\ UNCHANGED <<code, returnedAt>>
  /\ UNCHANGED <<inputVars, wikiVars, account, cookies, driverVars, url, redirects, cookieVars,
                 loginVars, verifSeen, authVia, pollCalls, start_time,
                 timeout, tickStart, arrived, codeVars, authenticated,
                 response, pureVars,
                 exit_status, stderr>>

\* line 578
wfvc_sleep ==
  /\ pc = "wfvc_sleep"
  /\ now' = now + check_interval
  /\ pc' = "wfvc_head"
  /\ UNCHANGED <<inputVars, wikiVars, account, cookies, driverVars, url, redirects, cookieVars,
                 loginVars, verifSeen, authVia, pollCalls, code, start_time,
                 timeout, tickStart, returnedAt, mailVars, codeVars,
                 authenticated, response, pureVars,
                 exit_status, stderr>>

\* the site's mail reaches the mailbox (between two ticks)
mail_arrives ==
  /\ pc = "wfvc_head"
  /\ arrived < MaxMails
  /\ \E m \in Messages : inbox' = Append(inbox, m)
  /\ arrived' = arrived + 1
  /\ UNCHANGED <<inputVars, wikiVars, account, pc, cookies, driverVars, url, redirects,
                 cookieVars, loginVars, verifSeen, authVia, pollCalls, code,
                 clockVars, conns, opened, leaks, found, codeVars,
                 authenticated,
                 response, pureVars,
                 exit_status, stderr>>

\* the mailboxes a tick may find
Inboxes == UNION {[1..n -> Messages] : n \in 0..MaxMails}

\* line 624, the call as scrape_with_session sees it.  The loop above ends
\* with the tick that finds a code, or at the deadline with None; so the
\* call returns what some tick returns over the messages unseen by then, or
\* None.  The time it takes plays no part in the orchestration.
LastTicks ==
  {[code |-> r.code, opens |-> r.opens, leak |-> r.leak] :
     r \in {Tick(c[1], c[2], c[3], c[4]) :
              c \in {d \in TickHows \X Inboxes \X (SUBSET (1..MaxMails))
                                    \X (0..MaxMails) :
                       /\ d[3] \subseteq 1..Len(d[2]) /\ d[4] <= Len(d[2])
                       /\ d[1] # "walk" => d[3] = {} /\ d[4] = 0}}}

wait_for_verification_code ==
  /\ pc = "poll"
  /\ pollCalls' = pollCalls + 1
  /\ stderr' = stderr \cup PollerLogs
  /\ \E r \in LastTicks :
         /\ opened' = opened + r.opens
         /\ conns' = conns + r.leak
         /\ leaks' = leaks + r.leak
         /\ code' = r.code
  /\ pc' = "after_poll"
  /\ UNCHANGED <<inputVars, wikiVars, account, cookies, driverVars, url, redirects, cookieVars,
                 loginVars, verifSeen, authVia, clockVars, inbox, arrived,
                 found, codeVars, authenticated, response, pureVars,
                 exit_status>>

\* ------------------------------------------- scrape_with_session, continued
\* lines 626 and 654-659
after_poll ==
  /\ pc = "after_poll"
  /\ IF code # NoCode
       THEN pc' = "submit_code" /\ UNCHANGED response
       ELSE Return(Failure("NO_VERIFICATION_CODE"))
  /\ UNCHANGED <<inputVars, wikiVars, account, cookies, driverVars, url, redirects, cookieVars,
                 loginVars, verifSeen, authVia, pollVars, codeVars,
                 authenticated, pureVars,
                 exit_status, stderr>>

\* lines 628-635 and 648-653: how far the submission gets before it raises
SubmitSteps == {"no_input", "send_raises", "no_button", "click_raises", "ok"}

submit_code ==
  /\ pc = "submit_code"
  /\ \E how \in SubmitSteps, loc \in Locs :
       /\ typed' = IF how \in {"no_button", "click_raises", "ok"}
                     THEN Append(typed, code) ELSE typed
       /\ IF how = "ok"
            THEN /\ submitted' = Append(submitted, code)
                 /\ url' = loc
                 /\ submitLoc' = loc
                 /\ pc' = "check_submit"
                 /\ UNCHANGED response
            ELSE /\ Return(Failure("VERIFICATION_ERROR"))
                 /\ UNCHANGED <<submitted, url, submitLoc>>
  /\ UNCHANGED <<inputVars, wikiVars, account, cookies, driverVars, redirects, cookieVars,
                 loginVars, verifSeen, authVia, pollVars, authenticated,
                 pureVars,
                 exit_status, stderr>>

\* a plausible slip: any location off the checkpoint counts as success
SubmitNotOnCheckpoint(r1, r2) == ~Contains(r2, "checkpoint")

\* line 638: `"feed" in driver.current_url or "/in/" in driver.current_url`
SubmitSucceeded(r1, r2) == Contains(r1, "feed") \/ Contains(r2, "/in/")

\* a plausible slip: a rejected code makes the run wait for another code
check_submit_then_poll_again ==
  /\ pc = "check_submit"
  /\ \E r2 \in Reads(url, redirects) :
       /\ Contains(url, "feed") => r2 = url
       /\ url' = r2
       /\ redirects' = redirects + Moved(url, r2)
       /\ IF SubmitSucceeded(url, r2)
            THEN /\ login_success' = TRUE
                 /\ authVia' = "code"
                 /\ pc' = "get_cookies"
            ELSE /\ pc' = "poll"
                 /\ UNCHANGED <<login_success, authVia>>
  /\ UNCHANGED <<inputVars, wikiVars, account, cookies, driverVars, cookieVars, loginCalls,
                 outcome, verifSeen, pollVars, codeVars, authenticated,
                 response, pureVars, exit_status, stderr>>

\* lines 638-646
check_submit ==
  /\ pc = "check_submit"
  /\ \E r2 \in Reads(url, redirects) :
       /\ Contains(url, "feed") => r2 = url
       /\ url' = r2
       /\ redirects' = redirects + Moved(url, r2)
       /\ IF SubmitSucceeded(url, r2)
            THEN /\ login_success' = TRUE
                 /\ authVia' = "code"
                 /\ pc' = "get_cookies"
                 /\ UNCHANGED response
            ELSE /\ Return(Failure("VERIFICATION_FAILED"))
                 /\ UNCHANGED <<login_success, authVia>>
  /\ UNCHANGED <<inputVars, wikiVars, account, cookies, driverVars, cookieVars, loginCalls,
                 outcome, verifSeen, pollVars, codeVars, authenticated,
                 pureVars,
                 exit_status, stderr>>

\* a plausible slip: the supplied cookies handed back as they came
CookiesAsSupplied(held, readRaises) == Range(cookiesIn)

\* lines 490-498: the driver's cookies, or [] when reading them raises
get_cookies_from_driver(held, readRaises) == IF readRaises THEN {} ELSE held

\* line 674
get_cookies ==
  /\ pc = "get_cookies"
  /\ \E readRaises \in BOOLEAN :
       new_cookies' = get_cookies_from_driver(jar, readRaises)
  /\ authenticated' = TRUE
  /\ pc' = "scrape"
  /\ UNCHANGED <<inputVars, wikiVars, account, cookies, driverVars, url, redirects, jar,
                 loadResult, accepted, loaded_count, loginVars, verifSeen, authVia,
                 pollVars, codeVars, response, pureVars,
                 exit_status, stderr>>

\* the name Person is bound by the import at line 328, inside scrape_profile;
\* scrape_with_session has no binding for it, so line 680 raises NameError
PersonIsBound(m) == m = "legacy"

\* lines 680-745 / 359-423: the data extraction and the success response
scrape ==
  /\ pc = "scrape"
  /\ \/ /\ PersonIsBound(mode)
        /\ Return(Success(mode = "session", new_cookies))
     \/ /\ PersonIsBound(mode)
        /\ \E msg \in ExcMsgs : Raise(msg)
     \/ /\ ~PersonIsBound(mode)
        /\ Raise(NameErrorMsg)
  /\ UNCHANGED <<inputVars, wikiVars, account, cookies, driverVars, url, redirects, cookieVars,
                 loginVars, verifSeen, authVia, pollVars, codeVars,
                 authenticated, pureVars,
                 exit_status, stderr>>

\* a plausible slip: the driver released on the failure paths only
QuitsOnlyOnFailure(d, resp) == d = "open" /\ ~resp.success

\* lines 763-768 / 441-446: `if driver:`
FinallyQuits(d, resp) == d = "open"

\* a plausible slip: driver.quit() called without a handler around it
QuitErrorPropagates(quitRaises) == quitRaises

\* lines 765-768 / 443-446: the bare `except: pass` around driver.quit()
QuitErrorEscapes(quitRaises) == FALSE

finally ==
  /\ pc = "finally"
  /\ IF FinallyQuits(driver, response)
       THEN /\ quitCalls' = quitCalls + 1
            /\ driver' = "closed"
            /\ \E quitRaises \in BOOLEAN :
                 raisedOut' = QuitErrorEscapes(quitRaises)
       ELSE UNCHANGED driverVars
  /\ pc' = "done"
  /\ UNCHANGED <<inputVars, wikiVars, account, cookies, url, redirects, cookieVars, loginVars,
                 verifSeen, authVia, pollVars, codeVars, authenticated,
                 response, pureVars,
                 exit_status, stderr>>

\* -------------------------------------------------------------------- Next
Next ==
  \/ main
  \/ scrape_profile_start
  \/ setup_driver
  \/ load_cookies_to_driver
  \/ validate_nav
  \/ check_session
  \/ login
  \/ check_verification
  \/ wait_for_verification_code
  \/ after_poll
  \/ submit_code
  \/ check_submit
  \/ get_cookies
  \/ scrape
  \/ finally
  \/ main_exit

Spec == Init /\ [][Next]_vars

\* ------------------------------------- the poller, called on its own
\* wait_for_verification_code(gmail_email, gmail_app_password, timeout)
InitPoll ==
  /\ request = "ok"
  /\ mode = "poll"
  /\ pc = "wfvc_start"
  /\ cookiesIn = <<>>
  /\ gmail_email = TRUE /\ gmail_app_password = TRUE /\ credsGiven = TRUE
  /\ creds = NoCreds
  /\ timeout \in -1..MaxTimeout
  /\ body = <<>> /\ exc = {} /\ form = NoForm
  /\ wiki = NoWiki
  /\ InitRun

NextPoll == wfvc_start \/ wfvc_head \/ wfvc_tick \/ wfvc_sleep \/ mail_arrives

SpecPoll == InitPoll /\ [][NextPoll]_vars

\* the same, with the steps of the function taken as long as it runs: each
\* statement, mailbox call and sleep returns or raises
SpecPollLive ==
  InitPoll /\ [][NextPoll]_vars
    /\ WF_vars(wfvc_start \/ wfvc_head \/ wfvc_tick \/ wfvc_sleep)

\* ------------------------------- the extraction step, lines 556-570, alone
InitExtract ==
  /\ request = "ok"
  /\ mode = "extract"
  /\ pc = "extract"
  /\ cookiesIn = <<>>
  /\ gmail_email = TRUE /\ gmail_app_password = TRUE /\ credsGiven = TRUE
  /\ creds = NoCreds
  /\ timeout = DefaultTimeout
  /\ body \in Bodies /\ exc = {} /\ form = NoForm
  /\ wiki = NoWiki
  /\ InitRun

extract_code ==
  /\ pc = "extract"
  /\ extracted' = ExtractCode(body)
  /\ pc' = "done"
  /\ UNCHANGED <<inputVars, wikiVars, account, cookies, driverVars, url, redirects, cookieVars,
                 loginVars, verifSeen, authVia, pollVars, codeVars,
                 authenticated, response, body, error_element, exc, form,
                 filled, exit_status, stderr>>

SpecExtract == InitExtract /\ [][extract_code]_vars

\* --------------------- the classification step, lines 260-309, alone
InitClassify ==
  /\ request = "ok"
  /\ mode = "classify"
  /\ pc = "classify"
  /\ cookiesIn = <<>>
  /\ gmail_email = FALSE /\ gmail_app_password = FALSE /\ credsGiven = TRUE
  /\ creds = NoCreds
  /\ timeout = DefaultTimeout
  /\ body = <<>> /\ exc = {} /\ form = NoForm
  /\ wiki = NoWiki
  /\ InitRun

\* line 261 reads the location; lines 265-309 classify it
classify ==
  /\ pc = "classify"
  /\ \E loc \in AllLocs, errElem \in ErrElems, page \in Pages :
       /\ url' = loc
       /\ error_element' = errElem
       /\ outcome' = login_to_linkedin("submitted", loc, errElem, page)
       /\ login_success' = (outcome' = "SUCCESS")
  /\ loginCalls' = loginCalls + 1
  /\ pc' = "done"
  /\ UNCHANGED <<inputVars, wikiVars, account, cookies, driverVars, redirects, cookieVars,
                 verifSeen, authVia, pollVars, codeVars, authenticated,
                 response, body, extracted, exc, form, filled,
                 exit_status, stderr>>

SpecClassify == InitClassify /\ [][classify]_vars

\* --------------------- scrape_profile(linkedin_url, email, password),
\* called on its own with any arguments and environment
InitProfile ==
  /\ request = "ok"
  /\ mode = "legacy"
  /\ pc = "start"
  /\ cookiesIn = <<>>
  /\ gmail_email = FALSE /\ gmail_app_password = FALSE
  /\ creds \in AllCreds
  /\ credsGiven = Available(creds)
  /\ timeout = DefaultTimeout
  /\ body = <<>> /\ exc = {} /\ form = NoForm
  /\ wiki = NoWiki
  /\ InitRun

NextProfile ==
  \/ scrape_profile_start
  \/ setup_driver
  \/ login
  \/ scrape
  \/ finally

SpecProfile == InitProfile /\ [][NextProfile]_vars

\* ------------------ search_wikipedia(query, search_type), called on its own
InitWiki ==
  /\ request = "ok"
  /\ mode = "wiki"
  /\ pc = "search"
  /\ cookiesIn = <<>>
  /\ gmail_email = FALSE /\ gmail_app_password = FALSE /\ credsGiven = TRUE
  /\ creds = NoCreds
  /\ timeout = DefaultTimeout
  /\ body = <<>> /\ exc = {} /\ form = NoForm
  /\ wiki \in WikiInputs
  /\ InitRun

\* wikipedia_search.py, lines 46-85
search_wikipedia ==
  /\ pc = "search"
  /\ queried' = FindPage(wiki).queried
  /\ result' = SearchResult(wiki)
  /\ pc' = "done"
  /\ UNCHANGED <<inputVars, wiki, account, cookies, driverVars, url,
                 redirects, cookieVars, loginVars, verifSeen, authVia,
                 pollVars, codeVars, authenticated, response, pureVars,
                 exit_status, stderr>>

SpecWiki == InitWiki /\ [][search_wikipedia]_vars

\* ------------------- the filling of the form, lines 173-254, alone
InitFill ==
  /\ request = "ok"
  /\ mode = "fill"
  /\ pc = "fill"
  /\ cookiesIn = <<>>
  /\ gmail_email = FALSE /\ gmail_app_password = FALSE /\ credsGiven = TRUE
  /\ creds = NoCreds
  /\ timeout = DefaultTimeout
  /\ body = <<>> /\ exc = {}
  /\ form \in [email : FieldInputs, password : FieldInputs]
  /\ wiki = NoWiki
  /\ InitRun

\* lines 173-245: the email field, then the password field when the email
\* field did not fail
fill_fields ==
  /\ pc = "fill"
  /\ LET e == FillField(form.email)
         p == IF e.result = "ok" THEN FillField(form.password) ELSE NotReached
     IN  /\ filled' = [email |-> e, password |-> p, clicked |-> FALSE]
         /\ IF e.result = "ok" /\ p.result = "ok"
              THEN pc' = "click" /\ UNCHANGED outcome
              ELSE pc' = "done" /\ outcome' = "NOT_SUBMITTED"
  /\ UNCHANGED <<inputVars, wikiVars, account, cookies, driverVars, url, redirects, cookieVars,
                 loginCalls, login_success, verifSeen, authVia, pollVars,
                 codeVars, authenticated, response, body, extracted,
                 error_element, exc, form, exit_status, stderr>>

\* lines 247-254: the click on the submit button
click_login ==
  /\ pc = "click"
  /\ \E clickRaises \in BOOLEAN :
       /\ filled' = [filled EXCEPT !.clicked = ~clickRaises]
       /\ outcome' = IF clickRaises THEN "NOT_SUBMITTED" ELSE outcome
  /\ pc' = "done"
  /\ UNCHANGED <<inputVars, wikiVars, account, cookies, driverVars, url, redirects, cookieVars,
                 loginCalls, login_success, verifSeen, authVia, pollVars,
                 codeVars, authenticated, response, body, extracted,
                 error_element, exc, form, exit_status, stderr>>

SpecFill == InitFill /\ [][fill_fields \/ click_login]_vars

\* ------------- the catch-all handlers, lines 747-761 and 425-439, alone
InitHandler ==
  /\ request = "ok"
  /\ mode \in {"session", "legacy"}
  /\ pc = "except"
  /\ cookiesIn = <<>>
  /\ gmail_email = FALSE /\ gmail_app_password = FALSE /\ credsGiven = TRUE
  /\ creds = NoCreds
  /\ timeout = DefaultTimeout
  /\ body = <<>>
  /\ exc \in SUBSET ExcWords /\ form = NoForm
  /\ wiki = NoWiki
  /\ InitRun

\* `except Exception as e:` of the function that runs, up to its return
except_handler ==
  /\ pc = "except"
  /\ Raise(exc)
  /\ UNCHANGED <<inputVars, wikiVars, account, cookies, driverVars, url, redirects, cookieVars,
                 loginVars, verifSeen, authVia, pollVars, codeVars,
                 authenticated, pureVars, exit_status, stderr>>

SpecHandler == InitHandler /\ [][except_handler]_vars

\* =================================================================== claims
\* the function has returned (and main may have exited)
Finished == pc \in {"done", "exited"}

LocationAsksVerification(u) ==
  Contains(u, "checkpoint") \/ Contains(u, "verification")

\* ----------------------------------------------------------------------- C1
\* C1: a supplied cookie set whose validation fails -- the cookies could not
\* be injected, or the validation navigation ended at a login or checkpoint
\* location -- is never the ground on which a run of scrape_with_session is
\* treated as authenticated: such a run goes on to login_to_linkedin.
C1_UnvalidatedNeverAccepted ==
  (mode = "session" /\ request = "ok" /\ authVia = "cookies") =>
     /\ loadResult = TRUE
     /\ accepted # {}
     /\ ~Contains(url, "login") /\ ~Contains(url, "checkpoint")

\* ----------------------------------------------------------------------- C2
\* C2: on every exit path of scrape_with_session and scrape_profile taken
\* after setup_driver returned a driver, driver.quit() is called exactly once
\* before the function returns, and an error of quit does not reach the
\* caller; no path calls quit twice.
C2_DriverQuitExactlyOnce ==
  /\ quitCalls <= 1
  /\ ~raisedOut
  /\ (Finished /\ driver # "none") =>
        quitCalls = 1 /\ driver = "closed" /\ response.returned
  /\ ~Finished => quitCalls = 0

\* a classified failure return after which the driver was released
C2_Witness ==
  /\ Finished /\ quitCalls = 1 /\ driver = "closed"
  /\ response.error_type = "VERIFICATION_FAILED"

C4_AuthenticatedReturnsCookies ==
  (mode = "session" /\ request = "ok" /\ Finished /\ authenticated) =>
     /\ response.success
     /\ response.has_cookies
     /\ response.cookies = new_cookies

\* ----------------------------------------------------------------------- C5
\* C5: when login_to_linkedin classifies the page as a CAPTCHA challenge (and
\* the location does not move afterwards), scrape_with_session never calls
\* wait_for_verification_code and never writes or submits a code.
C5_CaptchaNeverPolls ==
  (mode = "session" /\ request = "ok" /\ outcome = "CAPTCHA" /\ redirects = 0) =>
     (pollCalls = 0 /\ pc # "poll" /\ typed = <<>> /\ submitted = <<>>)

\* ----------------------------------------------------------------------- C6
\* C6: a post-submit location that carries the login marker together with a
\* checkpoint, challenge or verification marker, and no post-login marker, is
\* classified as checkpoint, CAPTCHA or two-factor -- in that precedence --
\* and never by the still-on-login or wrong-credentials inference.
C6_MarkersOutrankLoginInference ==
  (mode = "classify" /\ Finished /\ Contains(url, "login")
     /\ ~IsPostLogin(url)) =>
     /\ Contains(url, "checkpoint") => outcome = "CHECKPOINT"
     /\ (~Contains(url, "checkpoint") /\ Contains(url, "challenge")) =>
           outcome = "CAPTCHA"
     /\ (~Contains(url, "checkpoint") /\ ~Contains(url, "challenge")
           /\ Contains(url, "verification")) => outcome = "TWO_FACTOR"
     /\ (LocationAsksVerification(url) \/ Contains(url, "challenge")) =>
           outcome \notin {"STILL_ON_LOGIN", "INCORRECT", "UNRECOGNIZED",
                           "FIELD_ERROR", "UNEXPECTED", "SUCCESS"}

\* a location with the challenge and the login marker, classified as CAPTCHA
C6_Witness ==
  /\ mode = "classify" /\ Finished
  /\ url = {"challenge", "login"} /\ outcome = "CAPTCHA"

\* ----------------------------------------------------------------------- C7
\* C7: when the login failed, the orchestrator finds the location to be a
\* checkpoint or verification location (line 617) and the mailbox address or
\* its password is missing, the run ends with VERIFICATION_REQUIRED, the
\* poller is never called and no mailbox connection is opened.
C7_NoMailboxNoPolling ==
  /\ (mode = "session" /\ verifSeen = "required"
        /\ ~(gmail_email /\ gmail_app_password)) =>
        /\ pc \in {"finally", "done", "exited"}
        /\ response = Failure("VERIFICATION_REQUIRED")
        /\ pollCalls = 0 /\ opened = 0 /\ conns = 0
        /\ typed = <<>> /\ submitted = <<>>
  /\ (mode = "session" /\ pc \in {"finally", "done", "exited"} /\ loginCalls = 1
        /\ ~login_success /\ redirects = 0 /\ submitted = <<>>
        /\ LocationAsksVerification(url)) => verifSeen = "required"

\* a checkpoint location, the mailbox password missing, the run over
C7_Witness ==
  /\ mode = "session" /\ Finished /\ verifSeen = "required"
  /\ outcome = "CHECKPOINT" /\ Contains(url, "checkpoint")
  /\ gmail_email /\ ~gmail_app_password
  /\ response.error_type = "VERIFICATION_REQUIRED"

C9_CookiesUnchanged ==
  (mode = "session" /\ request = "ok" /\ authVia = "cookies" /\ authenticated
     /\ loadResult = TRUE /\ accepted = Range(cookiesIn)
     /\ new_cookies # {}) =>
     (loginCalls = 0 /\ new_cookies = Range(cookiesIn))

\* C9, amended: when the supplied cookies pass the validation navigation the
\* run reaches Authenticated without login_to_linkedin being called, and the
\* cookies captured for the caller are the ones the driver holds then -- the
\* supplied cookies it accepted and those the site set -- or none when
\* reading them raises.
C9_ValidCookiesNoLoginDriverCookies ==
  (mode = "session" /\ authVia = "cookies") =>
     /\ loginCalls = 0 /\ outcome = "none" /\ cookies = cookiesIn
     /\ authenticated =>
          /\ new_cookies \in {jar, {}}
          /\ jar \cap CookieIds = accepted
          /\ jar \subseteq Range(cookiesIn) \cup SiteCookies

\* the session was accepted and the captured cookies are not the supplied set
C9_Witness ==
  /\ mode = "session" /\ authVia = "cookies" /\ authenticated
  /\ loadResult = TRUE /\ accepted = Range(cookiesIn)
  /\ loginCalls = 0
  /\ new_cookies = jar /\ new_cookies # Range(cookiesIn)

\* ---------------------------------------------------------------------- C10
MatchingPatterns(b) ==
  {p \in 1..Len(code_patterns) : MatchPositions(code_patterns[p], b) # {}}

GroupsOf(p, b) ==
  {b[i + GroupIndex(code_patterns[p]) - 1] :
     i \in MatchPositions(code_patterns[p], b)}

\* C10: the extracted code is decided by pattern priority, not by position:
\* it is the six-digit group of a match of the first pattern of the list that
\* matches anywhere in the body, and None when no pattern matches; a body
\* with "your code: 123456" and a bare "654321", in either order, gives
\* 123456.
C10_PatternPriority ==
  (mode = "extract" /\ Finished) =>
     /\ IF MatchingPatterns(body) = {}
          THEN extracted = NoCode
          ELSE extracted \in GroupsOf(Min(MatchingPatterns(body)), body)
     /\ body \in { <<"your", "code:", "123456", "654321">>,
                   <<"654321", "your", "code:", "123456">> } =>
          extracted = "123456"

\* a later, higher-priority match wins over an earlier match of a later pattern
C10_Witness ==
  /\ mode = "extract" /\ Finished
  /\ body = <<"654321", "is", "your", "code:", "123456">>
  /\ extracted = "123456"

\* ---------------------------------------------------------------------- C11
\* C11: main exits with status 0 exactly when the response it printed has
\* success = true, and with status 1 for every other response, in the stdin
\* mode and in the legacy mode; before it exits no status is set.
C11_ExitStatusFollowsSuccess ==
  (mode \in {"session", "legacy"}) =>
     /\ pc = "exited" =>
          /\ response.returned
          /\ exit_status \in {0, 1}
          /\ (exit_status = 0) <=> response.success
     /\ pc # "exited" => exit_status = -1

\* a legacy run that printed a success response and left with status 0
C11_Witness ==
  /\ mode = "legacy" /\ pc = "exited"
  /\ response.success /\ exit_status = 0

\* ---------------------------------------------------------------------- C12
\* the error types of the output contract
ErrorTypes ==
  {"AUTH_MISSING", "AUTH_FAILED", "VERIFICATION_REQUIRED",
   "VERIFICATION_FAILED", "VERIFICATION_ERROR", "NO_VERIFICATION_CODE",
   "RATE_LIMITED", "PROFILE_NOT_FOUND", "SCRAPE_ERROR", "INVALID_URL",
   "INVALID_INPUT", "INPUT_ERROR"}

C13_BadRequestRejectedBeforeBrowsing ==
  (mode \in {"session", "legacy"} /\ request \in {"malformed", "no_url"}) =>
     /\ driver = "none" /\ quitCalls = 0
     /\ loginCalls = 0 /\ url = {}
     /\ pc = "exited" =>
          response.error_type \in {"INPUT_ERROR", "INVALID_INPUT"}

\* ---------------------------------------------------------------------- C14
\* C14: every poll tick that opens a mailbox connection closes it before the
\* next tick opens one and before the function returns, whatever the tick's
\* outcome: no connection is open between two ticks or at the return, and at
\* most one is open at any time.
C14_ConnectionClosedEveryTick ==
  (mode = "poll") =>
     /\ conns <= 1
     /\ pc \in {"wfvc_head", "wfvc_sleep", "done"} => conns = 0

\* ---------------------------------------------------------------------- C15
\* C15: within one run of scrape_with_session or scrape_profile
\* login_to_linkedin is called at most once, whatever its outcome; a failed
\* login, a missing code or a rejected code ends the run and no step leads
\* back to the login.
C15_LoginAtMostOnce ==
  (mode \in {"session", "legacy"}) =>
     /\ loginCalls <= 1
     /\ (loginCalls = 1 /\ outcome # "SUCCESS") =>
          pc \in {"check_verification", "poll", "after_poll", "submit_code",
                  "check_submit", "get_cookies", "scrape", "finally", "done",
                  "exited"}

\* a failed login, then a poll without a code: the run is over after one login
C15_Witness ==
  /\ mode = "session" /\ Finished
  /\ loginCalls = 1 /\ outcome = "CHECKPOINT" /\ pollCalls = 1
  /\ response.error_type = "NO_VERIFICATION_CODE"

\* ---------------------------------------------------------------------- C16
\* C16: wait_for_verification_code called with timeout T returns no later
\* than T plus the duration of one mailbox round trip after the call; the
\* sleep between two polls does not extend the blocking beyond that bound.
C16_ReturnsWithinDeadlinePlusRoundTrip ==
  (mode = "poll" /\ Finished) =>
     returnedAt - start_time <= timeout + MaxTickDur

\* ---------------------------------------------------------------------- C17
\* C17: once the mailbox polling has started the run ends distinctly from a
\* generic authentication failure: NO_VERIFICATION_CODE when the poller
\* returned no code, VERIFICATION_ERROR when the code was not submitted
\* because finding the field, writing or submitting raised,
\* VERIFICATION_FAILED when the code was submitted and the location reached
\* carries neither "feed" nor "/in/"; none of the three is reported as
\* AUTH_FAILED or as a success, and only a location with one of these
\* markers lets the run go on as authenticated.
C17_VerificationFailuresDistinct ==
  (mode = "session" /\ pollCalls >= 1) =>
     /\ (response.returned /\ code = NoCode) =>
           response.error_type = "NO_VERIFICATION_CODE"
     /\ (response.returned /\ code # NoCode /\ submitted = <<>>) =>
           response.error_type = "VERIFICATION_ERROR"
     /\ (response.returned /\ submitted # <<>>
           /\ ~Contains(submitLoc, "feed") /\ ~Contains(url, "/in/")) =>
           response.error_type = "VERIFICATION_FAILED"
     /\ authVia = "code" =>
           (submitted # <<>>
              /\ (Contains(submitLoc, "feed") \/ Contains(url, "/in/")))
     /\ (response.returned /\ authVia # "code") =>
           /\ ~response.success
           /\ response.error_type \in
                {"NO_VERIFICATION_CODE", "VERIFICATION_ERROR",
                 "VERIFICATION_FAILED"}

\* the code was submitted, the location reached is no success: the run ended
\* with VERIFICATION_FAILED
C17_Witness ==
  /\ mode = "session" /\ Finished /\ pollCalls = 1
  /\ code # NoCode /\ submitted = <<code>>
  /\ submitLoc = {"checkpoint"} /\ url = {"checkpoint"}
  /\ response.error_type = "VERIFICATION_FAILED"

\* ---------------------------------------------------------------------- C18
\* C18: a supplied cookie set is treated as a usable session only if the
\* validation navigation did not end at a login, checkpoint or challenge
\* location; a challenge location makes the run fall through to the login.
C18_ChallengeInvalidatesSession ==
  (mode = "session" /\ request = "ok" /\ authVia = "cookies"
     /\ loadResult = TRUE /\ accepted = Range(cookiesIn) /\ redirects = 0) =>
     /\ ~Contains(url, "login")
     /\ ~Contains(url, "checkpoint")
     /\ ~Contains(url, "challenge")

\* ---------------------------------------------------------------------- C19
\* the identity and the secret of the site credentials and of the mailbox
\* credentials
CredentialFields == {"email", "password", "gmail_email", "gmail_app_password"}

\* C19: no log line of a run shows the identity or the secret of the
\* supplied credentials in cleartext (so the log does not depend on them).
C19_NoCredentialInLog ==
  (mode = "session" /\ request = "ok") => stderr \cap CredentialFields = {}

\* ---------------------------------------------------------------------- C20
\* the state of the orchestrator's state machine a position of
\* scrape_with_session stands for
Phase(p, auth) ==
  IF p \in {"main", "setup"} THEN "NoSession"
  ELSE IF p \in {"load_cookies", "validate_nav", "check_session"}
    THEN "TryingCookies"
  ELSE IF p \in {"login", "check_verification"} THEN "TryingLogin"
  ELSE IF p \in {"poll", "after_poll"} THEN "AwaitingVerification"
  ELSE IF p \in {"submit_code", "check_submit"} THEN "SubmittingCode"
  ELSE IF p \in {"get_cookies", "scrape"} \/ auth THEN "Authenticated"
  ELSE "Failed"

\* the supplied cookies were injected and the validation navigation ended
\* at no login, checkpoint or challenge location
Validated(res, loc) ==
  /\ res = TRUE
  /\ ~Contains(loc, "login") /\ ~Contains(loc, "checkpoint")
  /\ ~Contains(loc, "challenge")

\* the transitions of the specified state machine
Transition(from, to) ==
  \/ from = to
  \/ from = "NoSession" /\ to = "TryingCookies" /\ cookiesIn # <<>>
  \/ from = "NoSession" /\ to = "TryingLogin" /\ cookiesIn = <<>>
  \/ from = "TryingCookies" /\ to = "TryingLogin"
  \/ from = "TryingCookies" /\ to = "Authenticated"
       /\ Validated(loadResult', url')
  \/ from = "TryingLogin" /\ to = "AwaitingVerification"
  \/ from = "TryingLogin" /\ to = "Authenticated" /\ outcome' = "SUCCESS"
  \/ from = "AwaitingVerification" /\ to = "SubmittingCode" /\ code' # NoCode
  \/ from = "SubmittingCode" /\ to = "Authenticated" /\ IsPostLogin(url')
  \/ from \notin {"Authenticated", "Failed"} /\ to = "Failed"

\* C20: every run of scrape_with_session, projected onto the states of the
\* state machine, takes only its transitions: TryingCookies only with
\* cookies supplied, AwaitingVerification only from TryingLogin,
\* SubmittingCode only from AwaitingVerification with a code, Authenticated
\* only from TryingCookies (validated), TryingLogin (Success) or
\* SubmittingCode (success); no run leaves Failed or goes back.
C20_OnlySpecifiedTransitions ==
  [][(mode = "session" /\ request = "ok") =>
       Transition(Phase(pc, authenticated), Phase(pc', authenticated'))]_vars

\* ---------------------------------------------------------------------- C21
\* C21: after a verification code was submitted, the submission is treated
\* as successful exactly when the location reached satisfies the post-login
\* predicate of login_to_linkedin's rule (1) (the location not moving
\* between the reads).
C21_SubmitPredicateIsLoginPredicate ==
  (mode = "session" /\ request = "ok" /\ outcome = "CHECKPOINT"
     /\ submitted # <<>> /\ pc # "check_submit" /\ redirects = 0) =>
     ((authVia = "code") <=> IsPostLogin(submitLoc))

\* ---------------------------------------------------------------------- C23
\* C23: the orchestrator's choice between starting the verification and
\* reporting AUTH_FAILED is computed from the location snapshot the login
\* outcome was computed from: after a checkpoint outcome the verification
\* branch is taken, whatever the page does between the reads.
C23_BranchFromLoginSnapshot ==
  (mode = "session" /\ request = "ok" /\ outcome = "CHECKPOINT"
     /\ verifSeen # "none") =>
     /\ verifSeen = "required"
     /\ response.error_type # "AUTH_FAILED"

\* ---------------------------------------------------------------------- C24
\* C24: when load_cookies_to_driver returns False the run goes on as with no
\* session: the session is not accepted as valid, and once the validation
\* navigation is over the run is at the login (or has logged in).
C24_FailedInjectionIsNoSession ==
  (mode = "session" /\ request = "ok" /\ cookiesIn # <<>>
     /\ driver # "none" /\ pc # "load_cookies"
     /\ loadResult = FALSE) =>
     /\ authVia # "cookies"
     /\ (pc \notin {"validate_nav", "check_session"} /\ ~response.returned)
          => (pc = "login" \/ loginCalls = 1)

\* ---------------------------------------------------------------------- C28
\* C28: per run of scrape_with_session the poller is called at most once and
\* gives at most one code; that code is written to the verification input
\* and submitted at most once, and nothing is written or submitted but the
\* code the poller returned in this run.
C28_OneCodeUsedOnce ==
  (mode = "session") =>
     /\ pollCalls <= 1
     /\ Len(typed) <= 1 /\ Len(submitted) <= 1
     /\ typed # <<>> => (pollCalls = 1 /\ code # NoCode /\ typed = <<code>>)
     /\ submitted # <<>> => submitted = typed
     /\ pollCalls = 0 => code = NoCode

\* the code the poller returned was written and submitted once, and rejected
C28_Witness ==
  /\ mode = "session" /\ Finished /\ pollCalls = 1
  /\ code = "482913" /\ typed = <<"482913">> /\ submitted = <<"482913">>
  /\ response.error_type = "VERIFICATION_FAILED"

\* ---------------------------------------------------------------------- C25
\* C25: a cookie the driver rejects is skipped and the others are still
\* injected; the count in the "Loaded N cookies" line is the number of
\* cookies the driver accepted.
C25_ReportedCountIsAcceptedCount ==
  (mode = "session" /\ request = "ok" /\ loaded_count # -1) =>
     /\ accepted \subseteq jar
     /\ loaded_count = Cardinality(accepted)

\* ---------------------------------------------------------------------- C22
\* C22: login_to_linkedin gives the field-level-error outcome only when the
\* error element is present and its text is not empty; with the element
\* present but empty, or absent, the classification goes on with the
\* still-on-login rule and then the unknown-state rule.
C22_FieldErrorOnlyWithText ==
  (mode = "classify" /\ pc = "done") =>
     /\ outcome = "FIELD_ERROR" => error_element = "text"
     /\ (error_element # "text" /\ ~IsPostLogin(url)
           /\ ~Contains(url, "checkpoint") /\ ~Contains(url, "challenge")
           /\ ~Contains(url, "verification")) =>
          outcome \in {"INCORRECT", "UNRECOGNIZED", "STILL_ON_LOGIN",
                       "UNEXPECTED"}

\* ---------------------------------------------------------------------- C30
\* C30: in the catch-all handlers of scrape_with_session and scrape_profile
\* the error_type is chosen by the first rule that matches the exception
\* message, whatever its letter case: 'rate' or 'limit' gives RATE_LIMITED,
\* otherwise 'auth' or 'login' gives AUTH_FAILED, otherwise 'not found' or
\* '404' gives PROFILE_NOT_FOUND, otherwise SCRAPE_ERROR; both handlers give
\* every message the same error_type.
HasWord(marker) == \E w \in exc : Lower(w) = marker

C30_FirstMatchingRule ==
  (pc = "finally" /\ response.returned) =>
     LET rate  == HasWord("rate") \/ HasWord("limit")
         auth  == HasWord("auth") \/ HasWord("login")
         nf    == HasWord("not found") \/ HasWord("404")
         t     == response.error_type
     IN  /\ rate => t = "RATE_LIMITED"
         /\ (~rate /\ auth) => t = "AUTH_FAILED"
         /\ (~rate /\ ~auth /\ nf) => t = "PROFILE_NOT_FOUND"
         /\ (~rate /\ ~auth /\ ~nf) => t = "SCRAPE_ERROR"

\* the session handler met a message with both 'limit' and 'Login'
C30_Witness ==
  /\ mode = "session" /\ pc = "finally"
  /\ {"limit", "Login"} \subseteq exc
  /\ response.error_type = "RATE_LIMITED"

C29_Marked(m) == \E w \in m.subject : Lower(w) = "verification"

C29_Searched(m) ==
  LET plain == {i \in 1..Len(m.parts) : m.parts[i].type = "text/plain"} IN
  IF ~m.multipart THEN m.parts[1].text
  ELSE IF plain = {} THEN <<>>
  ELSE m.parts[CHOOSE i \in plain : \A j \in plain : i <= j].text

C29_Yields(m) == C29_Marked(m) /\ ExtractCode(C29_Searched(m)) # NoCode

C29_Count(box) == Cardinality({i \in 1..Len(box) : C29_Yields(box[i])})

C29_OnlyMarkedFirstPlainPart ==
  /\ [](\A sub \in found : \E w \in sub : Lower(w) = "verification")
  /\ [](code # NoCode =>
          \E m \in Messages : /\ m.subject \in found
                              /\ C29_Yields(m)
                              /\ code = ExtractCode(C29_Searched(m)))
  /\ [][(pc = "wfvc_tick" /\ leaks' = leaks
           /\ C29_Count(inbox') < C29_Count(inbox)) =>
          (pc' = "done" /\ code' # NoCode)]_vars
  /\ [](\A j \in 1..Len(inbox) :
          (pc = "wfvc_tick" /\ C29_Yields(inbox[j])
             /\ \A i \in 1..(j - 1) : ~C29_Yields(inbox[i])) =>
            LET w == Walk(inbox, 1, {}, {}, 0) IN
              /\ w.kind = "code" /\ w.seen = 1..j
              /\ w.code = ExtractCode(C29_Searched(inbox[j])))
  /\ []((pc = "done" /\ code = NoCode /\ found # {}) =>
          returnedAt - start_time >= timeout)

\* a tick examined the marked multi-part message, found no code in its
\* first plain part, and a later tick returned the code of another message
C29_Witness ==
  /\ mode = "poll" /\ pc = "done"
  /\ {"LinkedIn", "VERIFICATION"} \in found
  /\ opened >= 2 /\ leaks = 0
  /\ code = "482913"

\* ---------------------------------------------------------------------- C26
\* C26 (as stated): for the email and the password field the scripted write
\* is made once and the value read back; the fallback is made at most once
\* and only if the read-back is empty; the field fails, and the form is not
\* submitted, exactly when the read-back is still empty after the fallback.
C26_Fields == {"email", "password"}

C26_StillEmpty(f) ==
  /\ filled[f].fallbacks = 1
  /\ Len(filled[f].entered) = 2 /\ filled[f].entered[2] = ""

C26_Failed(f) == filled[f].result \in {"blocked", "not_found"}

C26_FailsExactlyWhenStillEmpty ==
  (mode = "fill" /\ pc = "done") =>
     \A f \in C26_Fields :
       filled[f].result # "not_reached" =>
         /\ filled[f].writes = 1 /\ Len(filled[f].entered) >= 1
         /\ filled[f].fallbacks <= 1
         /\ filled[f].fallbacks = 1 => filled[f].entered[1] = ""
         /\ C26_Failed(f) <=> C26_StillEmpty(f)
         /\ C26_Failed(f) => ~filled.clicked

\* C26 (amended): for each field the function comes to, the scripted write
\* is made at most once (once unless the field is not found) and the
\* fallback at most once and only after an empty read-back; the field fails,
\* and the form is not submitted, exactly when the read-back is still empty
\* after the fallback or an exception is raised while the field is located
\* or filled; a field after a failed one is not touched.
C26_FailsWhenStillEmptyOrRaised ==
  (mode = "fill" /\ pc = "done") =>
     /\ \A f \in C26_Fields :
          /\ filled[f].writes <= 1 /\ filled[f].fallbacks <= 1
          /\ filled[f].entered # <<>> => filled[f].writes = 1
          /\ filled[f].fallbacks = 1 =>
               (filled[f].entered # <<>> /\ filled[f].entered[1] = "")
          /\ (filled[f].entered # <<>> /\ filled[f].entered[1] = ""
                /\ ~filled[f].raised) => filled[f].fallbacks = 1
          /\ C26_Failed(f) <=> (C26_StillEmpty(f) \/ filled[f].raised)
          /\ filled[f].result = "blocked" <=>
               (C26_StillEmpty(f) /\ ~filled[f].raised)
          /\ C26_Failed(f) => (~filled.clicked /\ outcome = "NOT_SUBMITTED")
     /\ C26_Failed("email") => filled.password = NotReached
     /\ filled.clicked => \A f \in C26_Fields : filled[f].result = "ok"

\* the email field was entered by the fallback; the password field stayed
\* empty after the fallback and the form was not submitted
C26_Witness ==
  /\ mode = "fill" /\ pc = "done"
  /\ filled.email.result = "ok" /\ filled.email.fallbacks = 1
  /\ filled.password.result = "blocked" /\ filled.password.fallbacks = 1
  /\ filled.password.entered = <<"", "">>
  /\ ~filled.clicked /\ outcome = "NOT_SUBMITTED"

\* ---------------------------------------------------------------------- C31
\* C31: scrape_profile returns AUTH_MISSING, with no browsing context
\* created and no login attempted, exactly when the email or the password
\* is absent (None or empty) from both the arguments and the environment; a
\* value passed as an argument takes precedence over the environment's.
C31_Absent(v) == v = "none" \/ v = ""

C31_Missing ==
  \/ C31_Absent(creds.email_arg) /\ C31_Absent(creds.env_email)
  \/ C31_Absent(creds.password_arg) /\ C31_Absent(creds.env_password)

C32_Order == <<Exact>> \o AlternativesOf(wiki.search_type)

\* an exception reached the handler of search_wikipedia
C32_Raised ==
  \/ wiki.raise_lookup \in 1..Len(queried)
  \/ (queried # <<>> /\ queried[Len(queried)] \in wiki.existing
        /\ wiki.raise_extract = "propagates")

C32_NoneExists == \A i \in 1..Len(C32_Order) : C32_Order[i] \notin wiki.existing

C32_FirstExistingAlternative ==
  (mode = "wiki" /\ pc = "done") =>
     /\ Len(queried) \in 1..Len(C32_Order)
     /\ \A i \in 1..Len(queried) : queried[i] = C32_Order[i]
     /\ \A i \in 1..(Len(queried) - 1) : queried[i] \notin wiki.existing
     /\ Len(queried) > 1 => Exact \notin wiki.existing
     /\ C32_Raised =>
          (~result.success /\ result.error_type = "SEARCH_ERROR")
     /\ ~C32_Raised =>
          /\ (~result.success /\ result.error_type = "NOT_FOUND")
               <=> C32_NoneExists
          /\ result.success <=> ~C32_NoneExists
     /\ result.success =>
          /\ result.page = queried[Len(queried)]
          /\ result.page \in wiki.existing
          /\ wiki.raise_extract # "propagates"

\* the exact page and the first alternative do not exist, the second and
\* the third do: the second is used
C32_Witness ==
  /\ mode = "wiki" /\ pc = "done"
  /\ wiki.search_type = "person"
  /\ wiki.existing = {"(venture capitalist)", "(entrepreneur)"}
  /\ queried = <<Exact, "(investor)", "(venture capitalist)">>
  /\ result.success /\ result.page = "(venture capitalist)"

====
